---- MODULE Spec2Model ----
(***************************************************************************)
(* Model of device_comm_full.py: one process that scans Wi-Fi, classic     *)
(* Bluetooth and BLE, talks to what it found, persists JSON files and, in  *)
(* --hourly mode, repeats the cycle from a polling scheduler.              *)
(*                                                                         *)
(* Every library or OS call the program makes (pywifi, bluetooth, bleak,   *)
(* os.makedirs, open, json.dump, socket, subprocess) either returns or     *)
(* raises; the outcome is drawn nondeterministically.  Records keep the    *)
(* fields the control flow reads (BSSID, Address, Name); the others        *)
(* (signal, frequency, timestamp) are payload copied into the file.        *)
(***************************************************************************)
EXTENDS Integers, Sequences, FiniteSets, TLC

\* ---------------------------------------------------------------- bounds
\* longest list a Wi-Fi or classic Bluetooth discovery returns
MaxDevices == 2
\* longest list a BLE discovery returns
MaxBle == 1
\* library/OS calls that raise within one cycle
MaxFaults == 1
\* one-second polls of the scheduler that make up the one-hour interval
Interval == 2

\* ---------------------------------------------------------------- data
Bssids == {"", "b1", "b2"}
BtAddresses == {"a1", "a2"}
BleNames == {"", "n1"}

\* a discovery reports each device once: sequences without repetition
ListsOver(S, n) ==
    UNION {{s \in [1..k -> S] : \A i, j \in 1..k : i # j => s[i] # s[j]} : k \in 0..n}

WifiResults == ListsOver([BSSID : Bssids], MaxDevices)
BtDevices == ListsOver([Address : BtAddresses], MaxDevices)
BleDevices == ListsOver([Address : {"e1"}, Name : BleNames], MaxBle)

None == [none |-> TRUE]

Modes == {"once", "manual", "hourly", "usage"}

\* outcome of a call into a driver, a socket or a subprocess
CallOutcomes == {"ok", "error"}
\* outcome of write_json: which of its steps raises, if any
WriteOutcomes == {"ok", "makedirs_error", "open_error", "dump_error"}
\* outcome of the ping subprocess
PingOutcomes == {"reachable", "unreachable", "error"}

VARIABLES
    mode,        \* the flag found in sys.argv
    pc,          \* position of the process
    interactive, \* argument of the running scan_and_communicate
    wifi_list,   \* local of scan_and_communicate
    bt_classic,  \* local of scan_and_communicate
    ble,         \* state of the BLE coroutine run by asyncio.run
    elapsed,     \* polls since the job was (re)scheduled
    files,       \* files created under BASE_DIR by the current cycle
    calls,       \* write_json invocations of the current cycle
    attempts,    \* communication attempts of the current cycle
    phases,      \* phases the current cycle has started, in order
    escaped,     \* functions an exception propagated out of
    faults,      \* calls that raised in the current cycle
    choice,      \* menu choice typed at the prompt
    selection,   \* device number typed at the prompt
    ran          \* a cycle has been started by this process

vars == <<mode, pc, interactive, wifi_list, bt_classic, ble, elapsed, files,
          calls, attempts, phases, escaped, faults, choice, selection, ran>>

\* ---------------------------------------------------------------- write_json
\* write_json as it would be with "if not data: return" in front of the open
WriteFiles_SkipEmpty(fs, data, subdir, prefix, o) ==
    IF data = <<>> THEN fs
    ELSE IF o = "ok"
    THEN Append(fs, [subdir |-> subdir, prefix |-> prefix, complete |-> TRUE, content |-> data])
    ELSE IF o = "dump_error"
    THEN Append(fs, [subdir |-> subdir, prefix |-> prefix, complete |-> FALSE, content |-> <<>>])
    ELSE fs

\* the file system after write_json(data, subdir, prefix) with outcome o
WriteFiles(fs, data, subdir, prefix, o) ==
    IF o = "ok"
    THEN Append(fs, [subdir |-> subdir, prefix |-> prefix, complete |-> TRUE, content |-> data])
    ELSE IF o = "dump_error"
    THEN Append(fs, [subdir |-> subdir, prefix |-> prefix, complete |-> FALSE, content |-> <<>>])
    ELSE fs

WriteCalls(cs, data, subdir, prefix, o) ==
    Append(cs, [subdir |-> subdir, prefix |-> prefix, data |-> data, outcome |-> o])

\* os.makedirs(folder) is outside the try block: its error is not caught
WriteRaises(o) == o = "makedirs_error"

Fault(o) == IF o = "ok" \/ o = "reachable" \/ o = "unreachable" THEN 0 ELSE 1

\* ---------------------------------------------------------------- helpers
RECURSIVE SumFaults(_)
SumFaults(os) == IF os = <<>> THEN 0 ELSE Fault(Head(os)) + SumFaults(Tail(os))

\* communicate_bluetooth(addr): the result record, or None when the socket raises
CommunicateBluetooth(addr, o) ==
    IF o = "ok" THEN [to |-> addr] ELSE None

\* communicate_wifi(bssid): a record for either exit status of ping, None
\* only when running the subprocess raises
CommunicateWifi(bssid, o) ==
    IF o = "error" THEN None
    ELSE [target |-> bssid, status |-> IF o = "reachable" THEN "reachable" ELSE "unreachable"]

AttemptRec(by, via, target, o) ==
    [by |-> by, via |-> via, target |-> target, outcome |-> o]

\* the loop of auto_communicate over bt_classic: attempts made, results kept
RECURSIVE BtLoopAttempts(_, _)
BtLoopAttempts(devs, outs) ==
    IF devs = <<>> THEN <<>>
    ELSE <<AttemptRec("auto", "bt", Head(devs).Address, Head(outs))>>
         \o BtLoopAttempts(Tail(devs), Tail(outs))

RECURSIVE BtLoopResults(_, _)
BtLoopResults(devs, outs) ==
    IF devs = <<>> THEN <<>>
    ELSE LET result == CommunicateBluetooth(Head(devs).Address, Head(outs))
         IN (IF result # None THEN <<result>> ELSE <<>>)
            \o BtLoopResults(Tail(devs), Tail(outs))

\* the loop of auto_communicate over wifi_list: entries with an empty BSSID are skipped
RECURSIVE WifiLoopAttempts(_, _)
WifiLoopAttempts(aps, outs) ==
    IF aps = <<>> THEN <<>>
    ELSE (IF Head(aps).BSSID # ""
          THEN <<AttemptRec("auto", "wifi", Head(aps).BSSID, Head(outs))>>
          ELSE <<>>)
         \o WifiLoopAttempts(Tail(aps), Tail(outs))

RECURSIVE WifiLoopResults(_, _)
WifiLoopResults(aps, outs) ==
    IF aps = <<>> THEN <<>>
    ELSE LET result == CommunicateWifi(Head(aps).BSSID, Head(outs))
         IN (IF Head(aps).BSSID # "" /\ result # None THEN <<result>> ELSE <<>>)
            \o WifiLoopResults(Tail(aps), Tail(outs))

AttemptOutcomes(as) == [i \in 1..Len(as) |-> as[i].outcome]

\* BLE record: "Name": d.name or "Unknown"
BleRecord(d) ==
    [Address |-> d.Address, Name |-> IF d.Name = "" THEN "Unknown" ELSE d.Name]

BleData(devices) == [i \in 1..Len(devices) |-> BleRecord(devices[i])]

\* ---------------------------------------------------------------- input text
Digits == {"0", "1", "2", "3", "4", "5", "6", "7", "8", "9"}

DigitVal(c) ==
    CASE c = "0" -> 0 [] c = "1" -> 1 [] c = "2" -> 2 [] c = "3" -> 3 [] c = "4" -> 4
      [] c = "5" -> 5 [] c = "6" -> 6 [] c = "7" -> 7 [] c = "8" -> 8 [] c = "9" -> 9

AllDigits(t) == Len(t) >= 1 /\ \A i \in 1..Len(t) : t[i] \in Digits

\* int(text) succeeds on an optionally signed run of digits, else ValueError
IsNumeric(t) ==
    \/ AllDigits(t)
    \/ Len(t) >= 2 /\ t[1] = "-" /\ AllDigits(Tail(t))

RECURSIVE NatOf(_)
NatOf(t) ==
    IF t = <<>> THEN 0
    ELSE 10 * NatOf(SubSeq(t, 1, Len(t) - 1)) + DigitVal(t[Len(t)])

IntOf(t) == IF t[1] = "-" THEN 0 - NatOf(Tail(t)) ELSE NatOf(t)

DigitChar(d) ==
    CASE d = 0 -> "0" [] d = 1 -> "1" [] d = 2 -> "2" [] d = 3 -> "3" [] d = 4 -> "4"
      [] d = 5 -> "5" [] d = 6 -> "6" [] d = 7 -> "7" [] d = 8 -> "8" [] d = 9 -> "9"

RECURSIVE NatText(_)
NatText(n) == IF n < 10 THEN <<DigitChar(n)>> ELSE NatText(n \div 10) \o <<DigitChar(n % 10)>>

IntText(n) == IF n < 0 THEN <<"-">> \o NatText(0 - n) ELSE NatText(n)

\* what the user may type at "Select device #": numbers around the list
\* bounds, and text that is not a number
SelectionTexts == {IntText(n) : n \in (0 - MaxDevices)..(MaxDevices + 1)} \cup {<<"x">>, <<>>}

Choices == {"1", "2", "3", "q"}

\* Python list indexing lst[sel]: negative indices count from the end
IndexInRange(sel, len) == 0 - len <= sel /\ sel < len

PyIndex(lst, sel) == IF sel >= 0 THEN lst[sel + 1] ELSE lst[Len(lst) + sel + 1]

\* ---------------------------------------------------------------- control
\* scan_and_communicate as it would be without the "if interactive:" test
NextPhase_AlwaysPrompt(p, inter) ==
    CASE p = "scan_wifi" -> "scan_classic"
      [] p = "scan_classic" -> "scan_ble"
      [] p = "scan_ble" -> "ble_await"
      [] p = "ble_await" -> "auto_bt"
      [] p = "auto_bt" -> "auto_wifi"
      [] p = "auto_wifi" -> "prompt"
      [] p = "prompt" -> "returned"

\* scan_and_communicate: the statement that follows each call
NextPhase(p, inter) ==
    CASE p = "scan_wifi" -> "scan_classic"
      [] p = "scan_classic" -> "scan_ble"
      [] p = "scan_ble" -> "ble_await"
      [] p = "ble_await" -> "auto_bt"
      [] p = "auto_bt" -> "auto_wifi"
      [] p = "auto_wifi" -> IF inter THEN "prompt" ELSE "returned"
      [] p = "prompt" -> "returned"

Terminated == {"exit", "fatal", "interrupted"}

TypeOK ==
    /\ mode \in Modes
    /\ pc \in {"main", "scan_wifi", "scan_classic", "scan_ble", "ble_await", "auto_bt",
               "auto_wifi", "prompt", "returned", "sched"} \cup Terminated
    /\ interactive \in BOOLEAN
    /\ wifi_list \in WifiResults
    /\ bt_classic \in BtDevices
    /\ ble \in {"idle", "running", "done", "cancelled"}
    /\ elapsed \in 0..Interval
    /\ faults \in 0..MaxFaults
    /\ ran \in BOOLEAN

Init ==
    /\ mode \in Modes
    /\ pc = "main"
    /\ interactive = FALSE
    /\ wifi_list = <<>>
    /\ bt_classic = <<>>
    /\ ble = "idle"
    /\ elapsed = 0
    /\ files = <<>>
    /\ calls = <<>>
    /\ attempts = <<>>
    /\ phases = <<>>
    /\ escaped = {}
    /\ faults = 0
    /\ choice = ""
    /\ selection = <<>>
    /\ ran = FALSE

\* entry of scan_and_communicate(interactive): a new cycle, nothing done yet
BeginCycle(inter) ==
    /\ pc' = "scan_wifi"
    /\ interactive' = inter
    /\ wifi_list' = <<>>
    /\ bt_classic' = <<>>
    /\ ble' = "idle"
    /\ files' = <<>>
    /\ calls' = <<>>
    /\ attempts' = <<>>
    /\ phases' = <<>>
    /\ escaped' = {}
    /\ faults' = 0
    /\ choice' = ""
    /\ selection' = <<>>
    /\ ran' = TRUE

\* an exception leaves the functions fs and reaches the handler of __main__
Raise(fs) ==
    /\ pc' = "fatal"
    /\ escaped' = escaped \cup fs

Main ==
    /\ pc = "main"
    /\ CASE mode = "once" -> BeginCycle(FALSE) /\ UNCHANGED <<mode, elapsed>>
         [] mode = "manual" -> BeginCycle(TRUE) /\ UNCHANGED <<mode, elapsed>>
         [] mode = "hourly" ->
                /\ pc' = "sched"
                /\ elapsed' = 0
                /\ UNCHANGED <<mode, interactive, wifi_list, bt_classic, ble, files, calls,
                               attempts, phases, escaped, faults, choice, selection, ran>>
         [] mode = "usage" ->
                /\ pc' = "exit"
                /\ UNCHANGED <<mode, interactive, wifi_list, bt_classic, ble, elapsed, files,
                               calls, attempts, phases, escaped, faults, choice, selection, ran>>

\* schedule.run_pending() finds the job not yet due; time.sleep(1)
SchedulerIdle ==
    /\ pc = "sched"
    /\ elapsed < Interval
    /\ elapsed' = elapsed + 1
    /\ UNCHANGED <<mode, pc, interactive, wifi_list, bt_classic, ble, files, calls,
                   attempts, phases, escaped, faults, choice, selection, ran>>

\* schedule.run_pending() finds the job due and calls scan_and_communicate()
SchedulerRunJob ==
    /\ pc = "sched"
    /\ elapsed = Interval
    /\ BeginCycle(FALSE)
    /\ elapsed' = 0
    /\ UNCHANGED mode

ScanWifi ==
    /\ pc = "scan_wifi"
    /\ phases' = Append(phases, "wifi")
    /\ \E o \in CallOutcomes, results \in WifiResults, w \in WriteOutcomes :
         /\ faults + Fault(o) + Fault(w) <= MaxFaults
         /\ IF o = "error"
            THEN /\ results = <<>> /\ w = "ok"
                 /\ Raise({"scan_wifi"})
                 /\ faults' = faults + 1
                 /\ UNCHANGED <<wifi_list, files, calls>>
            ELSE /\ calls' = WriteCalls(calls, results, "wifi_scans", "wifi", w)
                 /\ files' = WriteFiles(files, results, "wifi_scans", "wifi", w)
                 /\ faults' = faults + Fault(w)
                 /\ IF WriteRaises(w)
                    THEN Raise({"write_json", "scan_wifi"}) /\ UNCHANGED wifi_list
                    ELSE /\ wifi_list' = results
                         /\ pc' = NextPhase(pc, interactive)
                         /\ UNCHANGED escaped
    /\ UNCHANGED <<mode, interactive, bt_classic, ble, elapsed, attempts, choice, selection, ran>>

ScanBluetoothClassic ==
    /\ pc = "scan_classic"
    /\ phases' = Append(phases, "classic")
    /\ pc' = NextPhase(pc, interactive)
    /\ \E o \in CallOutcomes, devices \in BtDevices, w \in WriteOutcomes :
         /\ faults + Fault(o) + Fault(w) <= MaxFaults
         /\ IF o = "error"
            THEN /\ devices = <<>> /\ w = "ok"
                 /\ bt_classic' = <<>>
                 /\ faults' = faults + 1
                 /\ UNCHANGED <<files, calls, escaped>>
            ELSE /\ calls' = WriteCalls(calls, devices, "bt_scans", "classic", w)
                 /\ files' = WriteFiles(files, devices, "bt_scans", "classic", w)
                 /\ faults' = faults + Fault(w)
                 /\ IF WriteRaises(w)
                    THEN bt_classic' = <<>> /\ escaped' = escaped \cup {"write_json"}
                    ELSE bt_classic' = devices /\ UNCHANGED escaped
    /\ UNCHANGED <<mode, interactive, wifi_list, ble, elapsed, attempts, choice, selection, ran>>

\* asyncio.run(scan_bluetooth_ble()) starts the coroutine, which suspends in
\* await BleakScanner.discover
BleStart ==
    /\ pc = "scan_ble"
    /\ phases' = Append(phases, "ble")
    /\ ble' = "running"
    /\ pc' = NextPhase(pc, interactive)
    /\ UNCHANGED <<mode, interactive, wifi_list, bt_classic, elapsed, files, calls,
                   attempts, escaped, faults, choice, selection, ran>>

\* the discovery completes or raises; the coroutine finishes and asyncio.run returns
BleFinish ==
    /\ pc = "ble_await"
    /\ ble' = "done"
    /\ pc' = NextPhase(pc, interactive)
    /\ \E o \in CallOutcomes, devices \in BleDevices, w \in WriteOutcomes :
         /\ faults + Fault(o) + Fault(w) <= MaxFaults
         /\ IF o = "error"
            THEN /\ devices = <<>> /\ w = "ok"
                 /\ faults' = faults + 1
                 /\ UNCHANGED <<files, calls, escaped>>
            ELSE /\ calls' = WriteCalls(calls, BleData(devices), "bt_scans", "ble", w)
                 /\ files' = WriteFiles(files, BleData(devices), "bt_scans", "ble", w)
                 /\ faults' = faults + Fault(w)
                 /\ escaped' = IF WriteRaises(w) THEN escaped \cup {"write_json"} ELSE escaped
    /\ UNCHANGED <<mode, interactive, wifi_list, bt_classic, elapsed, attempts, phases,
                   choice, selection, ran>>

\* auto_communicate, first half: the Bluetooth loop and write_json(bt_results, ...)
AutoCommunicateBluetooth ==
    /\ pc = "auto_bt"
    /\ phases' = Append(phases, "comm_bt")
    /\ \E outs \in [1..Len(bt_classic) -> CallOutcomes], w \in WriteOutcomes :
         LET made == BtLoopAttempts(bt_classic, outs)
             bt_results == BtLoopResults(bt_classic, outs)
         IN /\ faults + SumFaults(AttemptOutcomes(made)) + Fault(w) <= MaxFaults
            /\ attempts' = attempts \o made
            /\ calls' = WriteCalls(calls, bt_results, "comm_logs", "bt_comm", w)
            /\ files' = WriteFiles(files, bt_results, "comm_logs", "bt_comm", w)
            /\ faults' = faults + SumFaults(AttemptOutcomes(made)) + Fault(w)
            /\ IF WriteRaises(w)
               THEN Raise({"write_json", "auto_communicate"})
               ELSE pc' = NextPhase(pc, interactive) /\ UNCHANGED escaped
    /\ UNCHANGED <<mode, interactive, wifi_list, bt_classic, ble, elapsed, choice, selection, ran>>

\* auto_communicate, second half: the Wi-Fi loop and write_json(wifi_results, ...)
AutoCommunicateWifi ==
    /\ pc = "auto_wifi"
    /\ phases' = Append(phases, "comm_wifi")
    /\ \E outs \in [1..Len(wifi_list) -> PingOutcomes], w \in WriteOutcomes :
         LET made == WifiLoopAttempts(wifi_list, outs)
             wifi_results == WifiLoopResults(wifi_list, outs)
         IN /\ faults + SumFaults(AttemptOutcomes(made)) + Fault(w) <= MaxFaults
            /\ attempts' = attempts \o made
            /\ calls' = WriteCalls(calls, wifi_results, "comm_logs", "wifi_comm", w)
            /\ files' = WriteFiles(files, wifi_results, "comm_logs", "wifi_comm", w)
            /\ faults' = faults + SumFaults(AttemptOutcomes(made)) + Fault(w)
            /\ IF WriteRaises(w)
               THEN Raise({"write_json", "auto_communicate"})
               ELSE pc' = NextPhase(pc, interactive) /\ UNCHANGED escaped
    /\ UNCHANGED <<mode, interactive, wifi_list, bt_classic, ble, elapsed, choice, selection, ran>>

\* interactive_terminal as it would be if it persisted the manual result the
\* way auto_communicate does, with write_json([result], "comm_logs", "manual")
InteractiveTerminal_Persisting ==
    /\ pc = "prompt"
    /\ phases' = Append(phases, "prompt")
    /\ \E c \in Choices :
         /\ choice' = c
         /\ \/ /\ c = "1"
               /\ \E t \in SelectionTexts, o \in CallOutcomes :
                    /\ selection' = t
                    /\ IF ~IsNumeric(t) \/ ~IndexInRange(IntOf(t) - 1, Len(bt_classic))
                       THEN /\ o = "ok"
                            /\ Raise({"interactive_terminal"})
                            /\ UNCHANGED <<attempts, faults, files, calls>>
                       ELSE LET addr == PyIndex(bt_classic, IntOf(t) - 1).Address
                                data == <<CommunicateBluetooth(addr, o)>>
                            IN /\ faults + Fault(o) <= MaxFaults
                               /\ attempts' = Append(attempts, AttemptRec("manual", "bt", addr, o))
                               /\ calls' = WriteCalls(calls, data, "comm_logs", "manual", "ok")
                               /\ files' = WriteFiles(files, data, "comm_logs", "manual", "ok")
                               /\ faults' = faults + Fault(o)
                               /\ pc' = NextPhase(pc, interactive)
                               /\ UNCHANGED escaped
            \/ /\ c = "2"
               /\ \E t \in SelectionTexts, o \in PingOutcomes :
                    /\ selection' = t
                    /\ IF ~IsNumeric(t) \/ ~IndexInRange(IntOf(t) - 1, Len(wifi_list))
                       THEN /\ o = "reachable"
                            /\ Raise({"interactive_terminal"})
                            /\ UNCHANGED <<attempts, faults, files, calls>>
                       ELSE LET bssid == PyIndex(wifi_list, IntOf(t) - 1).BSSID
                                data == <<CommunicateWifi(bssid, o)>>
                            IN /\ faults + Fault(o) <= MaxFaults
                               /\ attempts' = Append(attempts, AttemptRec("manual", "wifi", bssid, o))
                               /\ calls' = WriteCalls(calls, data, "comm_logs", "manual", "ok")
                               /\ files' = WriteFiles(files, data, "comm_logs", "manual", "ok")
                               /\ faults' = faults + Fault(o)
                               /\ pc' = NextPhase(pc, interactive)
                               /\ UNCHANGED escaped
            \/ /\ c \notin {"1", "2"}
               /\ pc' = NextPhase(pc, interactive)
               /\ UNCHANGED <<selection, attempts, faults, escaped, files, calls>>
    /\ UNCHANGED <<mode, interactive, wifi_list, bt_classic, ble, elapsed, ran>>

\* interactive_terminal(bt_classic, wifi_list)
InteractiveTerminal ==
    /\ pc = "prompt"
    /\ phases' = Append(phases, "prompt")
    /\ \E c \in Choices :
         /\ choice' = c
         /\ \/ /\ c = "1"
               /\ \E t \in SelectionTexts, o \in CallOutcomes :
                    /\ selection' = t
                    /\ IF ~IsNumeric(t) \/ ~IndexInRange(IntOf(t) - 1, Len(bt_classic))
                       THEN /\ o = "ok"
                            /\ Raise({"interactive_terminal"})
                            /\ UNCHANGED <<attempts, faults>>
                       ELSE /\ faults + Fault(o) <= MaxFaults
                            /\ attempts' = Append(attempts,
                                 AttemptRec("manual", "bt", PyIndex(bt_classic, IntOf(t) - 1).Address, o))
                            /\ faults' = faults + Fault(o)
                            /\ pc' = NextPhase(pc, interactive)
                            /\ UNCHANGED escaped
            \/ /\ c = "2"
               /\ \E t \in SelectionTexts, o \in PingOutcomes :
                    /\ selection' = t
                    /\ IF ~IsNumeric(t) \/ ~IndexInRange(IntOf(t) - 1, Len(wifi_list))
                       THEN /\ o = "reachable"
                            /\ Raise({"interactive_terminal"})
                            /\ UNCHANGED <<attempts, faults>>
                       ELSE /\ faults + Fault(o) <= MaxFaults
                            /\ attempts' = Append(attempts,
                                 AttemptRec("manual", "wifi", PyIndex(wifi_list, IntOf(t) - 1).BSSID, o))
                            /\ faults' = faults + Fault(o)
                            /\ pc' = NextPhase(pc, interactive)
                            /\ UNCHANGED escaped
            \/ /\ c \notin {"1", "2"}
               /\ pc' = NextPhase(pc, interactive)
               /\ UNCHANGED <<selection, attempts, faults, escaped>>
    /\ UNCHANGED <<mode, interactive, wifi_list, bt_classic, ble, elapsed, files, calls, ran>>

\* scan_and_communicate returns: to run_pending in --hourly mode, else main ends
Return ==
    /\ pc = "returned"
    /\ pc' = IF mode = "hourly" THEN "sched" ELSE "exit"
    /\ UNCHANGED <<mode, interactive, wifi_list, bt_classic, ble, elapsed, files, calls,
                   attempts, phases, escaped, faults, choice, selection, ran>>

\* Ctrl+C: KeyboardInterrupt unwinds to the handler of __main__
Interrupt ==
    /\ pc \notin Terminated
    /\ pc' = "interrupted"
    /\ ble' = IF ble = "running" THEN "cancelled" ELSE ble
    /\ UNCHANGED <<mode, interactive, wifi_list, bt_classic, elapsed, files, calls,
                   attempts, phases, escaped, faults, choice, selection, ran>>

Program ==
    \/ Main
    \/ SchedulerIdle
    \/ SchedulerRunJob
    \/ ScanWifi
    \/ ScanBluetoothClassic
    \/ BleStart
    \/ BleFinish
    \/ AutoCommunicateBluetooth
    \/ AutoCommunicateWifi
    \/ InteractiveTerminal
    \/ Return

Next == Program \/ Interrupt

Spec == Init /\ [][Next]_vars

\* the interpreter keeps executing the program as long as it has a next statement
FairSpec == Spec /\ WF_vars(Program)

\* ---------------------------------------------------------------- properties
Range(f) == {f[i] : i \in DOMAIN f}

IsPrefix(s, t) == Len(s) <= Len(t) /\ \A i \in 1..Len(s) : s[i] = t[i]

\* a cycle has run and is over: it returned, or an exception ended it
Finished == phases # <<>> /\ pc \in {"returned", "exit", "sched", "fatal"}

ScanFunctions == {"scan_wifi", "scan_bluetooth_classic", "scan_bluetooth_ble"}

PhaseOrder == <<"wifi", "classic", "ble", "comm_bt", "comm_wifi", "prompt">>

CallsOf(prefix) == SelectSeq(calls, LAMBDA c : c.prefix = prefix)
FilesOf(prefix) == SelectSeq(files, LAMBDA f : f.prefix = prefix)
AttemptsOf(by, via) == SelectSeq(attempts, LAMBDA a : a.by = by /\ a.via = via)

Targets(as) == [i \in 1..Len(as) |-> as[i].target]
Addresses(devs) == [i \in 1..Len(devs) |-> devs[i].Address]
NonEmptyBssids(aps) ==
    LET kept == SelectSeq(aps, LAMBDA ap : ap.BSSID # "")
    IN [i \in 1..Len(kept) |-> kept[i].BSSID]

\* the results of the attempts that did not raise, in the order they were made
Succeeded(as) ==
    LET kept == SelectSeq(as, LAMBDA a : a.outcome # "error")
    IN [i \in 1..Len(kept) |->
          IF kept[i].via = "bt" THEN CommunicateBluetooth(kept[i].target, kept[i].outcome)
          ELSE CommunicateWifi(kept[i].target, kept[i].outcome)]

\* C1: no exception leaves scan_wifi, scan_bluetooth_classic or
\* scan_bluetooth_ble, and a scan whose step raised returns the empty list.
C1_ScanErrorsContained ==
    /\ escaped \cap ScanFunctions = {}
    /\ \A i \in 1..Len(calls) :
         (calls[i].prefix = "classic" /\ calls[i].outcome = "makedirs_error") => bt_classic = <<>>

\* C2: whichever scans fail, a cycle that is over has invoked the Wi-Fi, the
\* classic and the BLE scan and has entered the communication phase.
C2_ScansIndependent ==
    Finished => {"wifi", "classic", "ble", "comm_bt"} \subseteq Range(phases)

\* C3: in --hourly mode the scheduler never waits between polls without a
\* cycle having been invoked already: the first cycle runs at start.
C3_ImmediateFirstCycle ==
    (mode = "hourly" /\ pc = "sched") => ran

\* C4: in --hourly mode, once a cycle has run, another cycle start always
\* follows unless the user interrupts the process.
C4_CyclesForever ==
    (mode = "hourly" /\ ran /\ pc # "scan_wifi") ~> (pc = "scan_wifi" \/ pc = "interrupted")

\* C5: when a cycle is over, auto_communicate has attempted every address of
\* bt_classic and every non-empty BSSID of wifi_list exactly once, in order,
\* and each comm_logs file holds exactly the results of the attempts that
\* did not fail.
C5_EveryTargetAttempted ==
    Finished =>
      /\ Targets(AttemptsOf("auto", "bt")) = Addresses(bt_classic)
      /\ Targets(AttemptsOf("auto", "wifi")) = NonEmptyBssids(wifi_list)
      /\ \A i \in 1..Len(files) :
           /\ (files[i].prefix = "bt_comm" /\ files[i].complete)
                => files[i].content = Succeeded(AttemptsOf("auto", "bt"))
           /\ (files[i].prefix = "wifi_comm" /\ files[i].complete)
                => files[i].content = Succeeded(AttemptsOf("auto", "wifi"))

\* C6: a communication phase that ran over an empty device list made no
\* attempt, called write_json exactly once for its type with the empty list,
\* and the file that call created holds the empty list.
C6_EmptyListStillPersisted ==
    /\ ("comm_bt" \in Range(phases) /\ bt_classic = <<>>) =>
         /\ AttemptsOf("auto", "bt") = <<>>
         /\ Len(CallsOf("bt_comm")) = 1
         /\ CallsOf("bt_comm")[1].data = <<>>
         /\ CallsOf("bt_comm")[1].outcome = "ok" => Len(FilesOf("bt_comm")) = 1
         /\ \A i \in 1..Len(FilesOf("bt_comm")) : FilesOf("bt_comm")[i].content = <<>>
    /\ ("comm_wifi" \in Range(phases) /\ wifi_list = <<>>) =>
         /\ AttemptsOf("auto", "wifi") = <<>>
         /\ Len(CallsOf("wifi_comm")) = 1
         /\ CallsOf("wifi_comm")[1].data = <<>>
         /\ CallsOf("wifi_comm")[1].outcome = "ok" => Len(FilesOf("wifi_comm")) = 1
         /\ \A i \in 1..Len(FilesOf("wifi_comm")) : FilesOf("wifi_comm")[i].content = <<>>

C6_Witness ==
    /\ pc = "returned"
    /\ bt_classic = <<>> /\ wifi_list = <<>>
    /\ Len(FilesOf("bt_comm")) = 1 /\ FilesOf("bt_comm")[1].complete
    /\ Len(FilesOf("wifi_comm")) = 1 /\ FilesOf("wifi_comm")[1].complete

\* C7: no failure inside write_json reaches its caller, and the scan that
\* called it returns the list it had handed to write_json.
C7_WriteNeverRaises ==
    /\ "write_json" \notin escaped
    /\ \A i \in 1..Len(calls) :
         /\ calls[i].prefix = "wifi" => wifi_list = calls[i].data
         /\ calls[i].prefix = "classic" => bt_classic = calls[i].data

\* C8: the phases of a cycle start in the order Wi-Fi scan, classic scan, BLE
\* scan, Bluetooth communication, Wi-Fi communication, prompt; the BLE
\* discovery is in progress only while the cycle waits for it; the prompt is
\* reached only after all five earlier phases and only in an interactive cycle.
C8_PhasesInOrder ==
    /\ IsPrefix(phases, PhaseOrder)
    /\ ble = "running" => pc = "ble_await"
    /\ pc = "auto_bt" => (phases = SubSeq(PhaseOrder, 1, 3) /\ ble = "done")
    /\ pc = "auto_wifi" => phases = SubSeq(PhaseOrder, 1, 4)
    /\ pc = "prompt" => phases = SubSeq(PhaseOrder, 1, 5)
    /\ (pc = "prompt" \/ "prompt" \in Range(phases)) => (interactive /\ mode = "manual")

C8_Witness ==
    /\ pc = "returned"
    /\ phases = PhaseOrder
    /\ interactive

\* C9: no step taken at the manual prompt, whatever is typed and whether it
\* returns or fails, changes the files written earlier in the cycle or calls
\* write_json.
C9_PromptKeepsFiles ==
    [][pc = "prompt" => (files' = files /\ calls' = calls)]_vars

C9_Witness ==
    /\ "prompt" \in Range(phases)
    /\ "interactive_terminal" \in escaped
    /\ IsNumeric(selection)
    /\ Len(files) = 5

\* C10: every communication attempt made from the prompt follows a typed
\* number n with 1 <= n <= the length of the listed devices, and goes to the
\* n-th listed device.
C10_SelectionWithinList ==
    \A i \in 1..Len(attempts) :
      attempts[i].by = "manual" =>
        LET n == IntOf(selection)
        IN IF attempts[i].via = "bt"
           THEN 1 <= n /\ n <= Len(bt_classic) /\ attempts[i].target = bt_classic[n].Address
           ELSE 1 <= n /\ n <= Len(wifi_list) /\ attempts[i].target = wifi_list[n].BSSID

====
